---------------------------- MODULE Spec2Model ----------------------------
(***************************************************************************)
(* A model of src/main.rs: a single-threaded HTTP-like server that serves  *)
(* a users table (id SERIAL PRIMARY KEY, name, email) held in PostgreSQL.  *)
(*                                                                         *)
(* Text is modelled as it is in the program: a string is a sequence of     *)
(* one-character strings, and routing, id extraction, body extraction,     *)
(* integer parsing and JSON decoding/encoding work on those characters.    *)
(* Option<T> is a sequence of length 0 (None) or 1 (Some).                 *)
(***************************************************************************)
EXTENDS Integers, Sequences, FiniteSets, TLC

\* ------------------------------------------------------------------ bounds

\* The SERIAL sequence of the users table hands out ids 1 .. MaxId in the model.
MaxId == 2

\* ------------------------------------------------------------- text basics

None == <<>>
Some(v) == <<v>>

\* "\r\n\r\n", the text handlers split the request on (main.rs:291)
Separator == <<"\r", "\n", "\r", "\n">>

\* char::is_whitespace on the characters the model uses (split_whitespace)
Whitespace == {" ", "\t", "\n", "\r"}

DigitChars == <<"0", "1", "2", "3", "4", "5", "6", "7", "8", "9">>

IsDigit(c) == \E k \in 1..10 : DigitChars[k] = c

DigitVal(c) == (CHOOSE k \in 1..10 : DigitChars[k] = c) - 1

\* i32::MAX
I32Max == 2147483647

\* str::starts_with
starts_with(r, p) == Len(p) <= Len(r) /\ SubSeq(r, 1, Len(p)) = p

\* the least element of a non-empty set of integers
Min(S) == CHOOSE j \in S : \A k \in S : j <= k

\* str::find from index i on: the first index >= i at which pat occurs in s,
\* 0 when it does not
FindFrom(s, pat, i) ==
    LET hits == {j \in i..(Len(s) - Len(pat) + 1) : SubSeq(s, j, j + Len(pat) - 1) = pat}
    IN  IF hits = {} THEN 0 ELSE Min(hits)

\* str::split(pat): every piece between non-overlapping matches taken left to
\* right, empty pieces included; a text without a match is its own only piece.
\* pieces[i] are the pieces of the text from index i on.
Split(s, pat) ==
    LET pieces[i \in 1..(Len(s) + 1)] ==
            LET j == FindFrom(s, pat, i)
            IN  IF j = 0 THEN <<SubSeq(s, i, Len(s))>>
                ELSE <<SubSeq(s, i, j - 1)>> \o pieces[j + Len(pat)]
    IN  pieces[1]

\* split_whitespace().next().unwrap_or_default(): the first maximal run of
\* non-whitespace characters, "" when there is none
FirstWord(s) ==
    LET starts == {j \in 1..Len(s) : s[j] \notin Whitespace}
    IN  IF starts = {} THEN <<>>
        ELSE LET b == Min(starts)
                 e == Min({j \in b..Len(s) : j = Len(s) \/ s[j + 1] \in Whitespace})
             IN  SubSeq(s, b, e)

\* get_id: split by "/", third piece or "", its first whitespace-separated word or ""
get_id(request) ==
    LET pieces == Split(request, <<"/">>)
        third == IF Len(pieces) >= 3 THEN pieces[3] ELSE <<>>
    IN  FirstWord(third)

\* AccumulateI32 with saturating arithmetic: a value beyond an end of i32 stays
\* at that end instead of failing
AccumulateI32Saturating(digits, negative) ==
    LET lim == I32Max \div 10
        last == I32Max % 10
        step[k \in 0..Len(digits)] ==
            IF k = 0 THEN Some(0)
            ELSE LET prev == step[k - 1]
                 IN  IF prev = None \/ ~IsDigit(digits[k]) THEN None
                     ELSE LET acc == prev[1]
                              d == DigitVal(digits[k])
                          IN  IF negative
                              THEN IF acc > -lim \/ (acc = -lim /\ d <= last + 1)
                                   THEN Some(acc * 10 - d) ELSE Some(-I32Max - 1)
                              ELSE IF acc < lim \/ (acc = lim /\ d <= last)
                                   THEN Some(acc * 10 + d) ELSE Some(I32Max)
    IN  step[Len(digits)]

\* The digit loop of <i32 as FromStr>::from_str: the digits are accumulated
\* with checked arithmetic (checked_mul, then checked_add for a positive and
\* checked_sub for a negative number); None on a non-digit and on an overflow.
\* step[k] is the value after k digits.
AccumulateI32(digits, negative) ==
    LET lim == I32Max \div 10
        last == I32Max % 10
        step[k \in 0..Len(digits)] ==
            IF k = 0 THEN Some(0)
            ELSE LET prev == step[k - 1]
                 IN  IF prev = None \/ ~IsDigit(digits[k]) THEN None
                     ELSE LET acc == prev[1]
                              d == DigitVal(digits[k])
                          IN  IF negative
                              THEN IF acc > -lim \/ (acc = -lim /\ d <= last + 1)
                                   THEN Some(acc * 10 - d) ELSE None
                              ELSE IF acc < lim \/ (acc = lim /\ d <= last)
                                   THEN Some(acc * 10 + d) ELSE None
    IN  step[Len(digits)]

\* str::parse::<i32>: an optional sign, then one or more decimal digits; Err on
\* an empty text, a lone sign, a non-digit or a value outside i32
parse_i32(src) ==
    IF Len(src) = 0 THEN None
    ELSE IF src[1] \in {"+", "-"}
         THEN IF Len(src) = 1 THEN None
              ELSE AccumulateI32(Tail(src), src[1] = "-")
         ELSE AccumulateI32(src, FALSE)

\* the decimal digits of a natural number
NatToString(n) ==
    LET digits[m \in 0..n] ==
            IF m < 10 THEN <<DigitChars[m + 1]>>
            ELSE digits[m \div 10] \o <<DigitChars[(m % 10) + 1]>>
    IN  digits[n]

\* i32's Display / serde_json's integer output: decimal digits, "-" when negative
I32ToString(n) ==
    IF n >= 0 THEN NatToString(n)
    ELSE LET d == (10 - (n % 10)) % 10
             rest == -((n + d) \div 10)
         IN  <<"-">> \o (IF rest = 0 THEN <<>> ELSE NatToString(rest)) \o <<DigitChars[d + 1]>>

\* ------------------------------------------------------------------- JSON
\* serde_json::from_str::<User> and serde_json::to_string, on the JSON the
\* model's requests and rows use: objects whose values are strings (with the
\* escapes \" and \\), integers and null, with optional JSON whitespace.

JsonWhitespace == {" ", "\t", "\n", "\r"}

ParseErr == [ok |-> FALSE]

\* the first index >= i that holds no JSON whitespace (Len(s) + 1 at the end)
SkipWs(s, i) ==
    LET stops == {j \in i..Len(s) : s[j] \notin JsonWhitespace}
    IN  IF stops = {} THEN Len(s) + 1 ELSE Min(stops)

\* a parsed string with character c put in front
Prepend(c, r) == IF r.ok THEN [r EXCEPT !.str = <<c>> \o @] ELSE ParseErr

\* a string's characters from index i (just after the opening quote) up to the
\* closing quote; Err at the end of input, on a raw control character and on
\* an escape other than \" and \\. rest[j] is the string read from index j on.
ParseStringBody(s, i) ==
    LET rest[j \in i..(Len(s) + 1)] ==
            IF j > Len(s) THEN ParseErr
            ELSE IF s[j] = "\""
                 THEN [ok |-> TRUE, kind |-> "str", str |-> <<>>, int |-> 0, pos |-> j + 1]
            ELSE IF s[j] = "\\"
                 THEN IF j + 1 <= Len(s) /\ s[j + 1] \in {"\"", "\\"}
                      THEN Prepend(s[j + 1], rest[j + 2])
                      ELSE ParseErr
            ELSE IF s[j] \in {"\t", "\n", "\r"} THEN ParseErr
            ELSE Prepend(s[j], rest[j + 1])
    IN  rest[i]

\* the index just after the run of digits that starts at j
DigitsEnd(s, j) == Min({k \in j..(Len(s) + 1) : k > Len(s) \/ ~IsDigit(s[k])})

\* a JSON integer at index i that fits an i32: "-"? then "0" or a digit run
\* without a leading zero; a fraction or an exponent is no i32
ParseInteger(s, i) ==
    LET neg == s[i] = "-"
        b == IF neg THEN i + 1 ELSE i
        e == DigitsEnd(s, b)
        val == AccumulateI32(SubSeq(s, b, e - 1), neg)
    IN  IF e = b THEN ParseErr
        ELSE IF s[b] = "0" /\ e > b + 1 THEN ParseErr
        ELSE IF e <= Len(s) /\ s[e] \in {".", "e", "E"} THEN ParseErr
        ELSE IF val = None THEN ParseErr
        ELSE [ok |-> TRUE, kind |-> "int", str |-> <<>>, int |-> val[1], pos |-> e]

\* one JSON value at index i: a string, an integer or null
ParseValue(s, i) ==
    IF i > Len(s) THEN ParseErr
    ELSE IF s[i] = "\"" THEN ParseStringBody(s, i + 1)
    ELSE IF s[i] = "-" \/ IsDigit(s[i]) THEN ParseInteger(s, i)
    ELSE IF i + 3 <= Len(s) /\ SubSeq(s, i, i + 3) = <<"n", "u", "l", "l">>
         THEN [ok |-> TRUE, kind |-> "null", str |-> <<>>, int |-> 0, pos |-> i + 4]
    ELSE ParseErr

\* the members ("key": value, separated by commas) of an object from index i
\* (a key is expected there) up to and including the closing brace, in order.
\* from[k] are the members read from index k on.
ParseMembers(s, i) ==
    LET from[k \in i..(Len(s) + 1)] ==
            LET q == SkipWs(s, k)
            IN  IF q > Len(s) \/ s[q] # "\"" THEN ParseErr
                ELSE LET key == ParseStringBody(s, q + 1)
                     IN  IF ~key.ok THEN ParseErr
                         ELSE LET c == SkipWs(s, key.pos)
                              IN  IF c > Len(s) \/ s[c] # ":" THEN ParseErr
                                  ELSE LET v == ParseValue(s, SkipWs(s, c + 1))
                                       IN  IF ~v.ok THEN ParseErr
                                           ELSE LET n == SkipWs(s, v.pos)
                                                    m == [key |-> key.str, value |-> v]
                                                IN  IF n > Len(s) THEN ParseErr
                                                    ELSE IF s[n] = "}"
                                                         THEN [ok |-> TRUE, members |-> <<m>>, pos |-> n + 1]
                                                    ELSE IF s[n] = ","
                                                         THEN LET more == from[n + 1]
                                                              IN  IF more.ok
                                                                  THEN [more EXCEPT !.members = <<m>> \o @]
                                                                  ELSE ParseErr
                                                    ELSE ParseErr
    IN  from[i]

FieldId == <<"i", "d">>
FieldName == <<"n", "a", "m", "e">>
FieldEmail == <<"e", "m", "a", "i", "l">>

\* the visitor #[derive(Deserialize)] generates for User: each field is an
\* Option that is None until its key is seen; it is an error to see a key of
\* User twice and to give it a value of the wrong type; other keys are ignored
StoreField(acc, key, v) ==
    IF key = FieldId
    THEN IF acc.id # None \/ v.kind \notin {"int", "null"} THEN ParseErr
         ELSE [ok |-> TRUE,
               acc |-> [acc EXCEPT !.id = Some(IF v.kind = "int" THEN Some(v.int) ELSE None)]]
    ELSE IF key = FieldName
    THEN IF acc.name # None \/ v.kind # "str" THEN ParseErr
         ELSE [ok |-> TRUE, acc |-> [acc EXCEPT !.name = Some(v.str)]]
    ELSE IF key = FieldEmail
    THEN IF acc.email # None \/ v.kind # "str" THEN ParseErr
         ELSE [ok |-> TRUE, acc |-> [acc EXCEPT !.email = Some(v.str)]]
    ELSE [ok |-> TRUE, acc |-> acc]

\* the fields of User after the members were visited in order
VisitMembers(members) ==
    LET seen[n \in 0..Len(members)] ==
            IF n = 0 THEN [ok |-> TRUE, acc |-> [id |-> None, name |-> None, email |-> None]]
            ELSE LET prev == seen[n - 1]
                 IN  IF prev.ok THEN StoreField(prev.acc, members[n].key, members[n].value)
                     ELSE ParseErr
    IN  seen[Len(members)]

\* one User object at index i (the opening brace is expected there): name and
\* email are required (missing field), a missing id is None
ParseUser(text, i) ==
    IF i > Len(text) \/ text[i] # "{" THEN ParseErr
    ELSE LET f == SkipWs(text, i + 1)
             m == IF f <= Len(text) /\ text[f] = "}"
                  THEN [ok |-> TRUE, members |-> <<>>, pos |-> f + 1]
                  ELSE ParseMembers(text, f)
         IN  IF ~m.ok THEN ParseErr
             ELSE LET v == VisitMembers(m.members)
                  IN  IF ~v.ok THEN ParseErr
                      ELSE IF v.acc.name = None \/ v.acc.email = None THEN ParseErr
                      ELSE [ok |-> TRUE,
                            user |-> [id |-> IF v.acc.id = None THEN None ELSE v.acc.id[1],
                                      name |-> v.acc.name[1],
                                      email |-> v.acc.email[1]],
                            pos |-> m.pos]

\* serde_json::from_str::<User>: one User object, then only whitespace
from_str(text) ==
    LET u == ParseUser(text, SkipWs(text, 1))
    IN  IF ~u.ok THEN ParseErr
        ELSE IF SkipWs(text, u.pos) <= Len(text) THEN ParseErr
        ELSE [ok |-> TRUE, user |-> u.user]

\* serde_json's string output: quotes around the text, " and \ escaped
JsonString(s) ==
    LET escaped[k \in 0..Len(s)] ==
            IF k = 0 THEN <<>>
            ELSE escaped[k - 1] \o (IF s[k] \in {"\"", "\\"} THEN <<"\\", s[k]>> ELSE <<s[k]>>)
    IN  <<"\"">> \o escaped[Len(s)] \o <<"\"">>

\* serde_json::to_string(&User): {"id":<id or null>,"name":"..","email":".."}
to_string(user) ==
    <<"{">> \o JsonString(FieldId) \o <<":">>
        \o (IF user.id = None THEN <<"n", "u", "l", "l">> ELSE I32ToString(user.id[1]))
        \o <<",">> \o JsonString(FieldName) \o <<":">> \o JsonString(user.name)
        \o <<",">> \o JsonString(FieldEmail) \o <<":">> \o JsonString(user.email)
        \o <<"}">>

\* serde_json::to_string(&Vec<User>): [u1,u2,...]
to_string_vec(us) ==
    LET joined[k \in 0..Len(us)] ==
            IF k = 0 THEN <<>>
            ELSE joined[k - 1] \o (IF k > 1 THEN <<",">> ELSE <<>>) \o to_string(us[k])
    IN  <<"[">> \o joined[Len(us)] \o <<"]">>

\* RequestBody taking the piece after the first separator: split(..).nth(1)
RequestBodySecondPiece(request) ==
    LET pieces == Split(request, Separator)
    IN  IF Len(pieces) >= 2 THEN pieces[2] ELSE <<>>

\* request.split("\r\n\r\n").last().unwrap_or_default(): the last piece of the
\* split, which is the whole text when the separator does not occur
RequestBody(request) ==
    LET pieces == Split(request, Separator)
    IN  pieces[Len(pieces)]

\* get_user_request_body falling back to an empty User (id None, name "",
\* email "") when the body does not decode
get_user_request_body_or_default(request) ==
    LET decoded == from_str(RequestBody(request))
    IN  IF decoded.ok THEN decoded
        ELSE [ok |-> TRUE, user |-> [id |-> None, name |-> <<>>, email |-> <<>>]]

\* get_user_request_body: the last piece of the split, decoded as a User
get_user_request_body(request) == from_str(RequestBody(request))

\* -------------------------------------------------------- program constants

\* "HTTP/1.1 200 OK\r\nContent-Type: application/json\r\n\r\n"
OK_RESPONSE ==
    <<"H", "T", "T", "P", "/", "1", ".", "1", " ", "2", "0", "0", " ", "O", "K", "\r", "\n",
      "C", "o", "n", "t", "e", "n", "t", "-", "T", "y", "p", "e", ":", " ",
      "a", "p", "p", "l", "i", "c", "a", "t", "i", "o", "n", "/", "j", "s", "o", "n",
      "\r", "\n", "\r", "\n">>

\* "HTTP/1.1 404 NOT FOUND\r\n\r\n"
NOT_FOUND ==
    <<"H", "T", "T", "P", "/", "1", ".", "1", " ", "4", "0", "4", " ",
      "N", "O", "T", " ", "F", "O", "U", "N", "D", "\r", "\n", "\r", "\n">>

\* "HTTP/1.1 500 INTERNAL ERROR\r\n\r\n"
INTERNAL_ERROR ==
    <<"H", "T", "T", "P", "/", "1", ".", "1", " ", "5", "0", "0", " ",
      "I", "N", "T", "E", "R", "N", "A", "L", " ", "E", "R", "R", "O", "R", "\r", "\n", "\r", "\n">>

\* the prefixes handle_client tests
PostUsers == <<"P", "O", "S", "T", " ", "/", "u", "s", "e", "r", "s">>
GetUsersSlash == <<"G", "E", "T", " ", "/", "u", "s", "e", "r", "s", "/">>
GetUsers == <<"G", "E", "T", " ", "/", "u", "s", "e", "r", "s">>
PutUsersSlash == <<"P", "U", "T", " ", "/", "u", "s", "e", "r", "s", "/">>
DeleteUsersSlash == <<"D", "E", "L", "E", "T", "E", " ", "/", "u", "s", "e", "r", "s", "/">>

\* the literal bodies
NotFoundBody == <<"4", "0", "4", " ", "n", "o", "t", " ", "f", "o", "u", "n", "d">>
UserCreated == <<"U", "s", "e", "r", " ", "c", "r", "e", "a", "t", "e", "d">>
UserUpdated == <<"U", "s", "e", "r", " ", "u", "p", "d", "a", "t", "e", "d">>
UserDeleted == <<"U", "s", "e", "r", " ", "d", "e", "l", "e", "t", "e", "d">>
UserNotFound == <<"U", "s", "e", "r", " ", "n", "o", "t", " ", "f", "o", "u", "n", "d">>
InternalErrorBody == <<"I", "n", "t", "e", "r", "n", "a", "l", " ", "e", "r", "r", "o", "r">>

\* ------------------------------------------------------------- the store
\* The users table: db.users maps each id present to its row's name and email;
\* db.seq is the last value the id column's SERIAL sequence handed out.

\* Insert giving the new row the lowest id no row has
InsertLowestFree(db, name, email) ==
    LET id == Min({i \in 1..(db.seq + 1) : i \notin DOMAIN db.users})
    IN  [users |-> [i \in DOMAIN db.users \cup {id} |->
                       IF i = id THEN [name |-> name, email |-> email] ELSE db.users[i]],
         seq |-> IF id > db.seq THEN id ELSE db.seq]

\* INSERT INTO users (name, email) VALUES ($1, $2): id defaults to nextval
Insert(db, name, email) ==
    [users |-> [i \in DOMAIN db.users \cup {db.seq + 1} |->
                   IF i = db.seq + 1 THEN [name |-> name, email |-> email] ELSE db.users[i]],
     seq |-> db.seq + 1]

\* Update without its WHERE clause
UpdateEveryRow(db, name, email, id) ==
    [db EXCEPT !.users = [i \in DOMAIN db.users |-> [name |-> name, email |-> email]]]

\* Update setting the name only
UpdateNameOnly(db, name, email, id) ==
    [db EXCEPT !.users = [i \in DOMAIN db.users |->
                            IF i = id THEN [name |-> name, email |-> db.users[i].email]
                            ELSE db.users[i]]]

\* UPDATE users SET name = $1, email = $2 WHERE id = $3
Update(db, name, email, id) ==
    [db EXCEPT !.users = [i \in DOMAIN db.users |->
                            IF i = id THEN [name |-> name, email |-> email] ELSE db.users[i]]]

\* DELETE FROM users WHERE id = $1, with the number of rows it affected
Delete(db, id) ==
    [db |-> [db EXCEPT !.users = [i \in DOMAIN db.users \ {id} |-> db.users[i]]],
     rows_affected |-> IF id \in DOMAIN db.users THEN 1 ELSE 0]

\* a row as the handlers build it: User { id: row.get(0), name: row.get(1), email: row.get(2) }
RowUser(db, i) == [id |-> Some(i), name |-> db.users[i].name, email |-> db.users[i].email]

\* the sequences in which a scan without ORDER BY may return the rows with ids S
Orders(S) == {o \in [1..Cardinality(S) -> S] : \A j, k \in DOMAIN o : o[j] = o[k] => j = k}

\* ------------------------------------------------------------- routing

\* Route with the second and the third prefix tested in the other order
RouteListFirst(request) ==
    IF starts_with(request, PostUsers) THEN "post"
    ELSE IF starts_with(request, GetUsers) THEN "get_all"
    ELSE IF starts_with(request, GetUsersSlash) THEN "get"
    ELSE IF starts_with(request, PutUsersSlash) THEN "put"
    ELSE IF starts_with(request, DeleteUsersSlash) THEN "delete"
    ELSE "not_found"

\* Route testing "DELETE /users" without the closing slash
RouteLooseDelete(request) ==
    IF starts_with(request, PostUsers) THEN "post"
    ELSE IF starts_with(request, GetUsersSlash) THEN "get"
    ELSE IF starts_with(request, GetUsers) THEN "get_all"
    ELSE IF starts_with(request, PutUsersSlash) THEN "put"
    ELSE IF starts_with(request, SubSeq(DeleteUsersSlash, 1, Len(DeleteUsersSlash) - 1))
         THEN "delete"
    ELSE "not_found"

\* the arm of handle_client's match the request takes: the first prefix, in the
\* order of the source, the request starts with
Route(request) ==
    IF starts_with(request, PostUsers) THEN "post"
    ELSE IF starts_with(request, GetUsersSlash) THEN "get"
    ELSE IF starts_with(request, GetUsers) THEN "get_all"
    ELSE IF starts_with(request, PutUsersSlash) THEN "put"
    ELSE IF starts_with(request, DeleteUsersSlash) THEN "delete"
    ELSE "not_found"


\* ------------------------------------------------------------- the inputs
\* The request texts a read may return: "<METHOD> <path> HTTP/1.1\r\n\r\n<body>".

\* the (name, email) payloads clients submit
PayloadAl == [name |-> <<"a", "l">>, email |-> <<"a", "@", "x">>]
PayloadBo == [name |-> <<"b", "o">>, email |-> <<"b", "@", "x">>]
Payloads == {PayloadAl, PayloadBo}

\* {"name":"<name>","email":"<email>"} as a client writes it
PayloadJson(p) ==
    <<"{", "\"", "n", "a", "m", "e", "\"", ":", "\"">> \o p.name
        \o <<"\"", ",", "\"", "e", "m", "a", "i", "l", "\"", ":", "\"">> \o p.email
        \o <<"\"", "}">>

RequestText(method, path, body) ==
    method \o <<" ">> \o path
        \o <<" ", "H", "T", "T", "P", "/", "1", ".", "1", "\r", "\n", "\r", "\n">> \o body

MethodPost == <<"P", "O", "S", "T">>
MethodGet == <<"G", "E", "T">>
MethodPut == <<"P", "U", "T">>
MethodDelete == <<"D", "E", "L", "E", "T", "E">>
MethodPatch == <<"P", "A", "T", "C", "H">>
PathUsers == <<"/", "u", "s", "e", "r", "s">>

\* /users/<token>
PathUser(token) == PathUsers \o <<"/">> \o token

\* the ids requests address: every id the sequence can hand out and one more,
\* which no row ever has
Ids == 1..(MaxId + 1)

\* id tokens that are no i32: letters, and the empty token of "/users/"
BadTokens == {<<"a", "b", "c">>, <<>>}

Tokens == {I32ToString(i) : i \in Ids} \cup BadTokens

\* bodies that do not decode as a User: none, text that is no JSON, and an
\* object without the email: {"name":"al"}
BadBodies ==
    {<<>>,
     <<"h", "e", "l", "l", "o">>,
     <<"{", "\"", "n", "a", "m", "e", "\"", ":", "\"", "a", "l", "\"", "}">>}

\* a payload whose name and email are the empty text
EmptyPayload == [name |-> <<>>, email |-> <<>>]

\* {"id":<k>,"name":"<name>","email":"<email>"}: a body that names an id
PayloadJsonWithId(k, p) ==
    <<"{", "\"", "i", "d", "\"", ":">> \o I32ToString(k) \o <<",">> \o Tail(PayloadJson(p))

\* id tokens at and beyond the ends of i32
TokenI32Max == <<"2", "1", "4", "7", "4", "8", "3", "6", "4", "7">>
TokenAboveI32 == <<"2", "1", "4", "7", "4", "8", "3", "6", "4", "8">>
TokenI32Min == <<"-", "2", "1", "4", "7", "4", "8", "3", "6", "4", "8">>
TokenBelowI32 == <<"-", "2", "1", "4", "7", "4", "8", "3", "6", "4", "9">>
EdgeTokens == {TokenI32Max, TokenAboveI32, TokenI32Min, TokenBelowI32}

PathUsersX == <<"/", "u", "s", "e", "r", "s", "X">>
HeaderEnd == <<"\r", "\n", "\r", "\n">>

ReqCreate(p) == RequestText(MethodPost, PathUsers, PayloadJson(p))
ReqRead(i) == RequestText(MethodGet, PathUser(I32ToString(i)), <<>>)
ReqList == RequestText(MethodGet, PathUsers, <<>>)
ReqUpdate(i, p) == RequestText(MethodPut, PathUser(I32ToString(i)), PayloadJson(p))
ReqDelete(i) == RequestText(MethodDelete, PathUser(I32ToString(i)), <<>>)
ReqCreateWithId(k, p) == RequestText(MethodPost, PathUsers, PayloadJsonWithId(k, p))

\* "POST /users": a create whose text has no blank line and no body
ReqCreateNoSeparator == MethodPost \o <<" ">> \o PathUsers

\* a create whose text has the blank line twice, the payload after the second
ReqCreateTwoSeparators(p) ==
    RequestText(MethodPost, PathUsers,
                <<"h", "e", "l", "l", "o">> \o HeaderEnd \o PayloadJson(p))

\* a create whose blank line is followed by one more line end, then the payload
ReqCreateLongSeparator(p) ==
    RequestText(MethodPost, PathUsers, <<"\r", "\n">> \o PayloadJson(p))

\* texts that extend the text of a route, or cut it short
ReqPostUsersSlash(p) == RequestText(MethodPost, PathUser(<<"5">>), PayloadJson(p))
ReqPostUsersX(p) == RequestText(MethodPost, PathUsersX, PayloadJson(p))
ReqGetUsersX == RequestText(MethodGet, PathUsersX, <<>>)
ReqDeleteNoId == RequestText(MethodDelete, PathUsers, <<>>)
ReqPutNoId(p) == RequestText(MethodPut, PathUsers, PayloadJson(p))

Requests ==
    {ReqCreate(p) : p \in Payloads}
    \cup {RequestText(MethodPost, PathUsers, b) : b \in BadBodies}
    \cup {RequestText(MethodGet, PathUser(t), <<>>) : t \in Tokens}
    \cup {ReqList}
    \cup {RequestText(MethodPut, PathUser(t), PayloadJson(p)) : t \in Tokens, p \in Payloads}
    \cup {RequestText(MethodPut, PathUser(I32ToString(1)), b) : b \in BadBodies}
    \cup {RequestText(MethodDelete, PathUser(t), <<>>) : t \in Tokens}
    \cup {ReqCreate(EmptyPayload), ReqUpdate(1, EmptyPayload), ReqCreateNoSeparator}
    \cup {ReqCreateWithId(1, PayloadBo),
          ReqCreateTwoSeparators(PayloadAl),
          ReqCreateLongSeparator(PayloadBo)}
    \cup {RequestText(MethodGet, PathUser(t), <<>>) : t \in EdgeTokens}
    \cup {RequestText(MethodDelete, PathUser(t), <<>>) : t \in {TokenI32Max, TokenAboveI32}}
    \cup {RequestText(MethodPut, PathUser(TokenAboveI32), PayloadJson(PayloadAl))}
    \cup {ReqPostUsersSlash(PayloadAl), ReqPostUsersX(PayloadBo), ReqPutNoId(PayloadAl),
          ReqGetUsersX, ReqDeleteNoId,
          RequestText(MethodPatch, PathUser(I32ToString(1)), <<>>),
          RequestText(MethodGet, <<"/", "i", "t", "e", "m", "s">>, <<>>),
          <<>>}

\* A request as the handlers use it: the text, the arm of handle_client's
\* match it takes, and what get_id(&request).parse::<i32>() and
\* get_user_request_body(&request) return on it.
Extract(text) ==
    [text |-> text,
     arm |-> Route(text),
     id |-> parse_i32(get_id(text)),
     user |-> get_user_request_body(text)]

Extracted == [r \in Requests |-> Extract(r)]

\* ------------------------------------------------------------- handlers
\* A handler returns the (status_line, content) tuple and the store it leaves,
\* or panics on an unwrap() of Err. request: the request as Extract gives it;
\* connOk: Client::connect returns Ok; queryOk: the statement returns Ok.

Reply(status_line, content, db) ==
    [panic |-> FALSE, status_line |-> status_line, content |-> content, db |-> db]

Panic(db) == [panic |-> TRUE, status_line |-> <<>>, content |-> <<>>, db |-> db]

\* handle_post_request writing the row under the id the body names, when it
\* names one
handle_post_request_body_id(request, db, connOk, queryOk) ==
    LET user == request.user
    IN  IF user.ok /\ connOk
        THEN IF queryOk
             THEN IF user.user.id = None
                  THEN Reply(OK_RESPONSE, UserCreated,
                             Insert(db, user.user.name, user.user.email))
                  ELSE Reply(OK_RESPONSE, UserCreated,
                             [db EXCEPT !.users =
                                 [i \in DOMAIN db.users \cup {user.user.id[1]} |->
                                     IF i = user.user.id[1]
                                     THEN [name |-> user.user.name, email |-> user.user.email]
                                     ELSE db.users[i]]])
             ELSE Panic(db)
        ELSE Reply(INTERNAL_ERROR, InternalErrorBody, db)

\* handle_post_request binding the email to $1 and the name to $2
handle_post_request_swapped(request, db, connOk, queryOk) ==
    LET user == request.user
    IN  IF user.ok /\ connOk
        THEN IF queryOk
             THEN Reply(OK_RESPONSE, UserCreated, Insert(db, user.user.email, user.user.name))
             ELSE Panic(db)
        ELSE Reply(INTERNAL_ERROR, InternalErrorBody, db)

handle_post_request(request, db, connOk, queryOk) ==
    LET user == request.user
    IN  IF user.ok /\ connOk
        THEN IF queryOk
             THEN Reply(OK_RESPONSE, UserCreated, Insert(db, user.user.name, user.user.email))
             ELSE Panic(db)
        ELSE Reply(INTERNAL_ERROR, InternalErrorBody, db)

handle_get_request(request, db, connOk, queryOk) ==
    LET id == request.id
    IN  IF id # None /\ connOk
        THEN IF queryOk /\ id[1] \in DOMAIN db.users
             THEN Reply(OK_RESPONSE, to_string(RowUser(db, id[1])), db)
             ELSE Reply(NOT_FOUND, UserNotFound, db)
        ELSE Reply(INTERNAL_ERROR, InternalErrorBody, db)

\* handle_get_all_request pushing only the first row of the result
handle_get_all_request_first(order, db, connOk, queryOk) ==
    IF connOk
    THEN IF queryOk
         THEN Reply(OK_RESPONSE,
                    to_string_vec([k \in DOMAIN order \cap {1} |-> RowUser(db, order[k])]), db)
         ELSE Panic(db)
    ELSE Reply(INTERNAL_ERROR, InternalErrorBody, db)

handle_get_all_request(order, db, connOk, queryOk) ==
    IF connOk
    THEN IF queryOk
         THEN Reply(OK_RESPONSE, to_string_vec([k \in DOMAIN order |-> RowUser(db, order[k])]), db)
         ELSE Panic(db)
    ELSE Reply(INTERNAL_ERROR, InternalErrorBody, db)

handle_put_request(request, db, connOk, queryOk) ==
    LET id == request.id
        user == request.user
    IN  IF id # None /\ user.ok /\ connOk
        THEN IF queryOk
             THEN Reply(OK_RESPONSE, UserUpdated, Update(db, user.user.name, user.user.email, id[1]))
             ELSE Panic(db)
        ELSE Reply(INTERNAL_ERROR, InternalErrorBody, db)

\* handle_delete_request reporting not-found when the id does not parse
handle_delete_request_parse404(request, db, connOk, queryOk) ==
    LET id == request.id
    IN  IF connOk
        THEN IF id = None THEN Reply(NOT_FOUND, UserNotFound, db)
             ELSE IF queryOk
             THEN LET d == Delete(db, id[1])
                  IN  IF d.rows_affected = 0
                      THEN Reply(NOT_FOUND, UserNotFound, d.db)
                      ELSE Reply(OK_RESPONSE, UserDeleted, d.db)
             ELSE Panic(db)
        ELSE Reply(INTERNAL_ERROR, InternalErrorBody, db)

\* handle_delete_request with the test of rows_affected turned round
handle_delete_request_inverted(request, db, connOk, queryOk) ==
    LET id == request.id
    IN  IF id # None /\ connOk
        THEN IF queryOk
             THEN LET d == Delete(db, id[1])
                  IN  IF d.rows_affected # 0
                      THEN Reply(NOT_FOUND, UserNotFound, d.db)
                      ELSE Reply(OK_RESPONSE, UserDeleted, d.db)
             ELSE Panic(db)
        ELSE Reply(INTERNAL_ERROR, InternalErrorBody, db)

\* handle_delete_request without the test of rows_affected
handle_delete_request_unchecked(request, db, connOk, queryOk) ==
    LET id == request.id
    IN  IF id # None /\ connOk
        THEN IF queryOk
             THEN Reply(OK_RESPONSE, UserDeleted, Delete(db, id[1]).db)
             ELSE Panic(db)
        ELSE Reply(INTERNAL_ERROR, InternalErrorBody, db)

handle_delete_request(request, db, connOk, queryOk) ==
    LET id == request.id
    IN  IF id # None /\ connOk
        THEN IF queryOk
             THEN LET d == Delete(db, id[1])
                  IN  IF d.rows_affected = 0
                      THEN Reply(NOT_FOUND, UserNotFound, d.db)
                      ELSE Reply(OK_RESPONSE, UserDeleted, d.db)
             ELSE Panic(db)
        ELSE Reply(INTERNAL_ERROR, InternalErrorBody, db)

\* ------------------------------------------------------------- the state

VARIABLES
    db,           \* the users table and its id sequence
    server,       \* main: "starting", "listening", "stopped" (main returned), "panicked"
    received,     \* the text the last connection's read returned
    route,        \* the match arm the last connection took ("none": no read yet or read failed)
    status_line,  \* the status line the arm returned (<<>>: none)
    content,      \* the content the arm returned
    peer,         \* the bytes written to the last connection's peer
    outcome,      \* how the last connection ended
    env,          \* what the environment did during the last connection
    deleted,      \* ghost: the ids whose delete-by-id was answered 200
    live          \* ghost: the ids created by a create answered 200 and not in deleted

vars == <<db, server, received, route, status_line, content, peer, outcome, env, deleted, live>>

\* no store call and no write happened
NoEnv == [store |-> "unused", writeOk |-> FALSE]

Init ==
    /\ db = [users |-> <<>>, seq |-> 0]
    /\ server = "starting"
    /\ received = <<>>
    /\ route = "none"
    /\ status_line = <<>>
    /\ content = <<>>
    /\ peer = <<>>
    /\ outcome = "none"
    /\ env = NoEnv
    /\ deleted = {}
    /\ live = {}

\* main up to the accept loop: set_database fails and main returns, or
\* bind(..).unwrap() panics, or the server listens
Start ==
    /\ server = "starting"
    /\ \E setOk, bindOk \in BOOLEAN :
          server' = IF ~setOk THEN "stopped" ELSE IF ~bindOk THEN "panicked" ELSE "listening"
    /\ UNCHANGED <<db, received, route, status_line, content, peer, outcome, env, deleted, live>>

\* listener.incoming() yields Err(e): printed, the loop goes on
AcceptError ==
    /\ server = "listening"
    /\ outcome' = "accept_error"
    /\ received' = <<>>
    /\ route' = "none"
    /\ status_line' = <<>>
    /\ content' = <<>>
    /\ peer' = <<>>
    /\ env' = NoEnv
    /\ UNCHANGED <<db, server, deleted, live>>

\* handle_client answering a failed read with INTERNAL_ERROR "Internal error"
ReadErrorAnswered ==
    /\ server = "listening"
    /\ outcome' = "read_error"
    /\ received' = <<>>
    /\ route' = "none"
    /\ status_line' = INTERNAL_ERROR
    /\ content' = InternalErrorBody
    /\ peer' = INTERNAL_ERROR \o InternalErrorBody
    /\ env' = NoEnv
    /\ UNCHANGED <<db, server, deleted, live>>

\* handle_client when stream.read returns Err(e): printed, nothing is written
ReadError ==
    /\ server = "listening"
    /\ outcome' = "read_error"
    /\ received' = <<>>
    /\ route' = "none"
    /\ status_line' = <<>>
    /\ content' = <<>>
    /\ peer' = <<>>
    /\ env' = NoEnv
    /\ UNCHANGED <<db, server, deleted, live>>

\* the match of handle_client on the request
Dispatch(req, order, connOk, queryOk) ==
    IF req.arm = "post" THEN handle_post_request(req, db, connOk, queryOk)
    ELSE IF req.arm = "get" THEN handle_get_request(req, db, connOk, queryOk)
    ELSE IF req.arm = "get_all" THEN handle_get_all_request(order, db, connOk, queryOk)
    ELSE IF req.arm = "put" THEN handle_put_request(req, db, connOk, queryOk)
    ELSE IF req.arm = "delete" THEN handle_delete_request(req, db, connOk, queryOk)
    ELSE Reply(NOT_FOUND, NotFoundBody, db)

\* what the store does during one connection: Client::connect returns Err, or
\* it returns Ok and the statement returns Err, or both return Ok
StoreOutcomes == {"connect_error", "query_error", "ok"}

\* handle_client when stream.read returns Ok(size): route, run the arm, write
\* status line and content with write_all(..).unwrap(). A panic (an unwrap of
\* Err in the arm or on the write) ends the process.
HandleClient ==
    /\ server = "listening"
    /\ \E text \in Requests :
       \E req \in {Extracted[text]} :
       \E store \in StoreOutcomes, writeOk \in BOOLEAN :
       \E order \in IF req.arm = "get_all" THEN Orders(DOMAIN db.users) ELSE {<<>>} :
       \E res \in {Dispatch(req, order, store # "connect_error", store = "ok")} :
          LET sent == ~res.panic /\ writeOk
              answered200 == sent /\ res.status_line = OK_RESPONSE
              gone == IF answered200 /\ req.arm = "delete" THEN {req.id[1]} ELSE {}
              made == IF answered200 /\ req.arm = "post"
                      THEN DOMAIN res.db.users \ DOMAIN db.users ELSE {}
          IN  /\ res.db.seq <= MaxId
              /\ db' = res.db
              /\ received' = text
              /\ route' = req.arm
              /\ status_line' = res.status_line
              /\ content' = res.content
              /\ peer' = IF sent THEN res.status_line \o res.content ELSE <<>>
              /\ outcome' = IF res.panic THEN "panicked_in_handler"
                            ELSE IF ~writeOk THEN "panicked_on_write"
                            ELSE "responded"
              /\ server' = IF sent THEN "listening" ELSE "panicked"
              /\ env' = [store |-> store, writeOk |-> writeOk]
              /\ deleted' = deleted \cup gone
              /\ live' = (live \cup made) \ gone

Next == Start \/ AcceptError \/ ReadError \/ HandleClient

Spec == Init /\ [][Next]_vars


\* ------------------------------------------------------------- properties

\* the last connection's read succeeded and handle_client matched the text
Routed == route # "none"

\* the complete response of a status line and a body
Response(status, body) == status \o body

\* C1: every request text takes exactly one arm, the first in the order
\* POST /users, GET /users/, GET /users, PUT /users/, DELETE /users/, else
\* not-found, whose prefix it starts with; a text that starts with
\* "GET /users/" is read-by-id and never list-all (its content is no JSON array).
C1_RouteOrder ==
    Routed =>
        LET post == starts_with(received, PostUsers)
            get == starts_with(received, GetUsersSlash)
            get_all == starts_with(received, GetUsers)
            put == starts_with(received, PutUsersSlash)
            delete == starts_with(received, DeleteUsersSlash)
        IN  /\ route = (IF post THEN "post" ELSE IF get THEN "get"
                        ELSE IF get_all THEN "get_all" ELSE IF put THEN "put"
                        ELSE IF delete THEN "delete" ELSE "not_found")
            /\ get => /\ route = "get"
                      /\ content # <<>> => content[1] # "["
                      /\ content \in {UserNotFound, InternalErrorBody}
                            \/ (status_line = OK_RESPONSE /\ from_str(content).ok)
            /\ route = "get_all" /\ status_line = OK_RESPONSE => content[1] = "["
            /\ route = "not_found" => status_line = NOT_FOUND /\ content = NotFoundBody

\* a read of row 1 is answered with that row, not with the list
C1_Witness ==
    /\ DOMAIN db.users = {1, 2}
    /\ received = ReqRead(1)
    /\ route = "get"
    /\ peer = Response(OK_RESPONSE, to_string(RowUser(db, 1)))

\* the last connection was answered: the arm returned and the write succeeded
Answered == outcome = "responded"

\* the User a payload reads back as under id i
Stored(i, p) == [id |-> Some(i), name |-> p.name, email |-> p.email]

\* the complete 200 response carrying exactly the User u
UserResponse(u, bytes) ==
    /\ Len(bytes) > Len(OK_RESPONSE)
    /\ SubSeq(bytes, 1, Len(OK_RESPONSE)) = OK_RESPONSE
    /\ from_str(SubSeq(bytes, Len(OK_RESPONSE) + 1, Len(bytes))) = [ok |-> TRUE, user |-> u]

\* C2: a create of a valid payload that is answered 200 leaves exactly one new
\* row, under a non-null id the store assigned, holding the submitted name and
\* email, and leaves the other rows alone; the read-by-id of that id that
\* follows and that the store serves answers 200 with exactly that id, name
\* and email.
C2_CreateThenRead ==
    [][/\ (route' = "post" /\ Answered' /\ status_line' = OK_RESPONSE) =>
             \A p \in Payloads :
                received' = ReqCreate(p) =>
                   LET new == DOMAIN db'.users \ DOMAIN db.users
                   IN  /\ Cardinality(new) = 1
                       /\ \A i \in new : /\ i = db'.seq
                                         /\ i > db.seq
                                         /\ db'.users[i] = [name |-> p.name, email |-> p.email]
                       /\ \A j \in DOMAIN db.users :
                             j \in DOMAIN db'.users /\ db'.users[j] = db.users[j]
       /\ (/\ route = "post" /\ Answered /\ status_line = OK_RESPONSE
           /\ route' = "get" /\ Answered' /\ env'.store = "ok") =>
             \A p \in Payloads :
                (received = ReqCreate(p) /\ received' = ReqRead(db.seq)) =>
                   UserResponse(Stored(db.seq, p), peer')
      ]_vars

\* row 2 was created from a payload and a read of it was answered with it
C2_Witness ==
    /\ db.seq = 2
    /\ 2 \in live
    /\ received = ReqRead(2)
    /\ \E p \in Payloads : /\ db.users[2] = [name |-> p.name, email |-> p.email]
                           /\ UserResponse(Stored(2, p), peer)

\* the users of a JSON array of User objects: [u1,u2,...] or []
DecodeUsers(text) ==
    LET Err == [ok |-> FALSE, users |-> <<>>]
        items[i \in 1..(Len(text) + 1)] ==
            LET u == ParseUser(text, i)
            IN  IF ~u.ok \/ u.pos > Len(text) THEN Err
                ELSE IF text[u.pos] = "]"
                     THEN IF u.pos = Len(text) THEN [ok |-> TRUE, users |-> <<u.user>>] ELSE Err
                ELSE IF text[u.pos] = ","
                     THEN LET rest == items[u.pos + 1]
                          IN  IF rest.ok THEN [ok |-> TRUE, users |-> <<u.user>> \o rest.users]
                              ELSE Err
                ELSE Err
    IN  IF Len(text) < 2 \/ text[1] # "[" THEN Err
        ELSE IF text = <<"[", "]">> THEN [ok |-> TRUE, users |-> <<>>]
        ELSE items[2]

\* C3: a list-all answered 200 carries a JSON array with exactly one entry per
\* user created and not deleted: as many entries as such users, their ids
\* exactly the ids of those users, each with the name and email the row holds.
C3_ListAllIsLive ==
    (route = "get_all" /\ status_line = OK_RESPONSE) =>
        LET listed == DecodeUsers(content)
        IN  /\ listed.ok
            /\ Len(listed.users) = Cardinality(live)
            /\ {listed.users[k].id : k \in DOMAIN listed.users} = {Some(i) : i \in live}
            /\ \A k \in DOMAIN listed.users :
                  \E i \in DOMAIN db.users : listed.users[k] = RowUser(db, i)

\* two users were created, one of them was deleted, and the list has the other
C3_Witness ==
    /\ received = ReqList
    /\ Answered
    /\ deleted = {1}
    /\ live = {2}
    /\ DecodeUsers(content).ok
    /\ Len(DecodeUsers(content).users) = 1
    /\ peer = Response(OK_RESPONSE, content)

\* the start of a request text that addresses id i: "<METHOD> /users/<i> "
AddressOf(method, i) == method \o <<" ">> \o PathUser(I32ToString(i)) \o <<" ">>

\* C4: an update-by-id changes at most the row of the addressed id: the ids
\* present are the same after it as before it, and every row with another id
\* has the same name and email.
C4_UpdateFrame ==
    [][route' = "put" =>
          /\ DOMAIN db'.users = DOMAIN db.users
          /\ db'.seq = db.seq
          /\ \A j \in DOMAIN db.users :
                db'.users[j] = db.users[j] \/ starts_with(received', AddressOf(MethodPut, j))
      ]_vars

\* row 1 was updated to a payload while row 2 holds another one
C4_Witness ==
    /\ DOMAIN db.users = {1, 2}
    /\ \E p \in Payloads : /\ received = ReqUpdate(1, p)
                           /\ db.users[1] = [name |-> p.name, email |-> p.email]
                           /\ db.users[2] # db.users[1]
    /\ peer = Response(OK_RESPONSE, UserUpdated)

\* C5: an update-by-id of an existing row with a valid body that is answered
\* 200 "User updated" leaves the row under the same id with both the submitted
\* name and the submitted email; the read-by-id of that id that follows and
\* that the store serves answers 200 with that id and both submitted values.
C5_UpdateThenRead ==
    [][/\ (route' = "put" /\ Answered' /\ peer' = Response(OK_RESPONSE, UserUpdated)) =>
             \A i \in DOMAIN db.users, p \in Payloads :
                received' = ReqUpdate(i, p) =>
                   /\ i \in DOMAIN db'.users
                   /\ db'.users[i] = [name |-> p.name, email |-> p.email]
       /\ (/\ route = "put" /\ Answered /\ status_line = OK_RESPONSE
           /\ route' = "get" /\ Answered' /\ env'.store = "ok") =>
             \A i \in DOMAIN db.users, p \in Payloads :
                (received = ReqUpdate(i, p) /\ received' = ReqRead(i)) =>
                   UserResponse(Stored(i, p), peer')
      ]_vars

\* the existing row 1 was updated to a payload and the update answered 200
C5_Witness ==
    /\ 1 \in live
    /\ 1 \in DOMAIN db.users
    /\ \E p \in Payloads : /\ received = ReqUpdate(1, p)
                           /\ db.users[1] = [name |-> p.name, email |-> p.email]
    /\ Answered
    /\ peer = Response(OK_RESPONSE, UserUpdated)

\* C6: a delete-by-id of an id no row has leaves the store exactly as it was
\* and is never answered 200; when the store runs the DELETE the answer is
\* 404 "User not found".
C6_DeleteMissing ==
    [][\A i \in Ids :
          (route' = "delete" /\ i \notin DOMAIN db.users /\ received' = ReqDelete(i)) =>
              /\ db' = db
              /\ status_line' # OK_RESPONSE
              /\ env'.store = "ok" => /\ status_line' = NOT_FOUND
                                      /\ content' = UserNotFound
                                      /\ Answered' => peer' = Response(NOT_FOUND, UserNotFound)
      ]_vars

\* a delete of id 2, which no row has while row 1 exists, was answered 404
C6_Witness ==
    /\ DOMAIN db.users = {1}
    /\ received = ReqDelete(2)
    /\ env.store = "ok"
    /\ peer = Response(NOT_FOUND, UserNotFound)

\* C7: once a delete-by-id of an id was answered 200, no row has that id ever
\* again (no later create is given it), and every later delete-by-id and
\* read-by-id of it that is answered is never answered 200 and, when the
\* store connection succeeds, is answered 404 "User not found".
C7_DeletedStays404 ==
    [][\A i \in deleted :
          /\ i \in deleted'
          /\ i \notin DOMAIN db.users
          /\ i \notin DOMAIN db'.users
          /\ (/\ route' \in {"get", "delete"} /\ Answered'
              /\ received' \in {ReqRead(i), ReqDelete(i)}) =>
                /\ status_line' # OK_RESPONSE
                /\ env'.store # "connect_error" => peer' = Response(NOT_FOUND, UserNotFound)
      ]_vars

\* id 1 was deleted, a later create got id 2, and a read of id 1 was answered 404
C7_Witness ==
    /\ 1 \in deleted
    /\ DOMAIN db.users = {2}
    /\ received = ReqRead(1)
    /\ env.store = "ok"
    /\ peer = Response(NOT_FOUND, UserNotFound)

\* a token that is no optional sign followed by digits
NonNumeric(token) ==
    \/ token = <<>>
    \/ token \in {<<"+">>, <<"-">>}
    \/ \E k \in 1..Len(token) : ~IsDigit(token[k]) /\ ~(k = 1 /\ token[1] \in {"+", "-"})

\* C8: on GET/PUT/DELETE /users/<token>, an empty or non-numeric token is
\* answered 500 "Internal error", never 404, whatever the store does and holds.
C8_BadTokenIs500 ==
    (route \in {"get", "put", "delete"} /\ NonNumeric(get_id(received))) =>
        /\ status_line = INTERNAL_ERROR
        /\ content = InternalErrorBody
        /\ env.writeOk => peer = Response(INTERNAL_ERROR, InternalErrorBody)

\* DELETE /users/abc with the store reachable and holding rows is answered 500
C8_Witness ==
    /\ route = "delete"
    /\ get_id(received) = <<"a", "b", "c">>
    /\ env.store = "ok"
    /\ DOMAIN db.users # {}
    /\ peer = Response(INTERNAL_ERROR, InternalErrorBody)

\* the three status preambles
Preambles == {OK_RESPONSE, NOT_FOUND, INTERNAL_ERROR}

\* a status preamble followed by a body
CompleteResponse(bytes) ==
    \E pre \in Preambles : /\ Len(bytes) > Len(pre)
                           /\ SubSeq(bytes, 1, Len(pre)) = pre

\* C9: whenever the read of a connection succeeded and the peer takes the
\* write, the peer has a complete response (a status preamble and a body),
\* also when the store connection or the statement failed.
C9_AlwaysAnswered ==
    (Routed /\ env.writeOk) => CompleteResponse(peer)

\* C10: after any connection, whatever error it raised, the server is still
\* in its accept loop.
C10_ServerSurvives ==
    outcome # "none" => server = "listening"

\* C11: an update-by-id with a numeric id and a valid body that the store
\* serves while no row has that id is answered 404; it is answered 200
\* "User updated" only when a row was updated.
C11_UpdateMissingIs404 ==
    \A i \in Ids, p \in Payloads :
        (received = ReqUpdate(i, p) /\ Answered /\ env.store = "ok" /\ i \notin DOMAIN db.users) =>
            /\ status_line = NOT_FOUND
            /\ Response(status_line, content) # Response(OK_RESPONSE, UserUpdated)

\* C12: a read-by-id with a numeric id is answered 404 "User not found" exactly
\* when the query ran and matched no row, and 500 "Internal error" when the
\* connection or the query failed.
C12_ReadSplits404And500 ==
    \A i \in Ids :
        (received = ReqRead(i) /\ Answered) =>
            /\ status_line = NOT_FOUND <=> (env.store = "ok" /\ i \notin DOMAIN db.users)
            /\ env.store # "ok" => /\ status_line = INTERNAL_ERROR
                                   /\ content = InternalErrorBody

\* the text starts with none of the five prefixes handle_client tests
NoPrefix(text) ==
    /\ ~starts_with(text, PostUsers)
    /\ ~starts_with(text, GetUsersSlash)
    /\ ~starts_with(text, GetUsers)
    /\ ~starts_with(text, PutUsersSlash)
    /\ ~starts_with(text, DeleteUsersSlash)

\* the text is a request of the route table: the method, then exactly the
\* path /users or a path /users/<id>
TableRoute(text) ==
    \/ text = PostUsers
    \/ starts_with(text, PostUsers \o <<" ">>)
    \/ starts_with(text, GetUsersSlash)
    \/ text = GetUsers
    \/ starts_with(text, GetUsers \o <<" ">>)
    \/ starts_with(text, PutUsersSlash)
    \/ starts_with(text, DeleteUsersSlash)

\* C13 as stated: every answered request that is not a request of the route
\* table, such as "GET /usersX", "POST /users/5" or "POST /usersX", is answered
\* 404 "404 not found".
C13_OnlyTableRoutes ==
    (Routed /\ Answered /\ ~TableRoute(received)) =>
        peer = Response(NOT_FOUND, NotFoundBody)

\* C13 as amended: every request whose text starts with none of the five
\* prefixes is answered 404 "404 not found" whatever the store would do, and
\* leaves the store as it was; a text that extends a prefix takes that prefix's
\* route: "GET /usersX" is a list-all, "POST /users/5" and "POST /usersX" are
\* creates.
C13_NoPrefixIs404 ==
    [][Routed' =>
          /\ NoPrefix(received') =>
                /\ status_line' = NOT_FOUND
                /\ content' = NotFoundBody
                /\ db' = db
                /\ env'.writeOk => peer' = Response(NOT_FOUND, NotFoundBody)
          /\ received' = ReqGetUsersX => route' = "get_all"
          /\ received' \in {ReqPostUsersSlash(PayloadAl), ReqPostUsersX(PayloadBo)} =>
                route' = "post"
      ]_vars

\* "DELETE /users", which lacks the slash, was answered 404 "404 not found"
\* while the store failed statements and held a row
C13_Witness ==
    /\ received = ReqDeleteNoId
    /\ env.store = "query_error"
    /\ DOMAIN db.users # {}
    /\ peer = Response(NOT_FOUND, NotFoundBody)

\* creates whose body is empty, absent (the text has no blank line) or does
\* not decode as a User: no JSON, or an object without the email
BadCreates == {RequestText(MethodPost, PathUsers, b) : b \in BadBodies} \cup {ReqCreateNoSeparator}

\* C14: a create whose body is empty, absent or does not decode as a User is
\* answered 500 "Internal error", whatever the store would do, and leaves the
\* store as it was.
C14_BadBodyIs500 ==
    [][(route' = "post" /\ received' \in BadCreates) =>
          /\ status_line' = INTERNAL_ERROR
          /\ content' = InternalErrorBody
          /\ db' = db
          /\ env'.writeOk => peer' = Response(INTERNAL_ERROR, InternalErrorBody)
      ]_vars

\* a create without the email was answered 500 by a store that serves requests
\* and holds a row
C14_Witness ==
    /\ received = RequestText(MethodPost, PathUsers,
                              <<"{", "\"", "n", "a", "m", "e", "\"", ":", "\"", "a", "l", "\"", "}">>)
    /\ env.store = "ok"
    /\ db.seq = 1
    /\ DOMAIN db.users = {1}
    /\ peer = Response(INTERNAL_ERROR, InternalErrorBody)

\* C15: every row of the store has a non-empty name and a non-empty email.
C15_NamesNonEmpty ==
    \A i \in DOMAIN db.users : db.users[i].name # <<>> /\ db.users[i].email # <<>>

\* C16: a create answered 200 whose body names an id k gives the new row the
\* next value of the store's sequence, not k, with the submitted name and
\* email, and leaves every row the store had, the row with id k among them,
\* as it was.
C16_BodyIdIgnored ==
    [][(route' = "post" /\ Answered' /\ status_line' = OK_RESPONSE) =>
          \A k \in Ids, p \in Payloads :
             received' = ReqCreateWithId(k, p) =>
                /\ DOMAIN db'.users = DOMAIN db.users \cup {db.seq + 1}
                /\ db'.seq = db.seq + 1
                /\ db'.users[db.seq + 1] = [name |-> p.name, email |-> p.email]
                /\ \A j \in DOMAIN db.users : db'.users[j] = db.users[j]
      ]_vars

\* a create naming id 1 was answered 200 while row 1 existed: the new row is
\* row 2 and row 1 still holds another payload
C16_Witness ==
    /\ received = ReqCreateWithId(1, PayloadBo)
    /\ Answered
    /\ status_line = OK_RESPONSE
    /\ DOMAIN db.users = {1, 2}
    /\ db.users[1] = PayloadAl
    /\ db.users[2] = PayloadBo

\* the ids whose row is present on one side only, or differs
RowsChanged(before, after) ==
    {i \in DOMAIN before.users \cup DOMAIN after.users :
        \/ i \notin DOMAIN before.users
        \/ i \notin DOMAIN after.users
        \/ before.users[i] # after.users[i]}

\* C17: a connection executes at most one routed action and writes at most one
\* response: it changes at most one row, and the peer has either nothing or
\* exactly the one status line and content of the arm taken; when the read
\* fails no arm is taken, the store is unchanged and nothing is written.
C17_OncePerConnection ==
    [][/\ Cardinality(RowsChanged(db, db')) <= 1
       /\ peer' # <<>> => /\ Routed'
                          /\ status_line' \in {OK_RESPONSE, NOT_FOUND, INTERNAL_ERROR}
                          /\ peer' = Response(status_line', content')
       /\ ~Routed' => db' = db /\ peer' = <<>> /\ status_line' = <<>> /\ content' = <<>>
       /\ outcome' = "read_error" => ~Routed' /\ server' = server
      ]_vars

\* a read failed after a row had been created: nothing was routed or written,
\* and the server listens on
C17_Witness ==
    /\ outcome = "read_error"
    /\ DOMAIN db.users # {}
    /\ route = "none"
    /\ peer = <<>>
    /\ server = "listening"

\* the indices at which the blank-line separator occurs in the text
SeparatorAt(text) ==
    {j \in 1..(Len(text) - Len(Separator) + 1) :
        SubSeq(text, j, j + Len(Separator) - 1) = Separator}

\* the text from index j on
Suffix(text, j) == SubSeq(text, j, Len(text))

\* C18 as stated: the body is the text after the last occurrence of the
\* separator, and the empty text when the separator does not occur.
C18_BodyEmptyWithoutSeparator ==
    route \in {"post", "put"} =>
        LET at == SeparatorAt(received)
        IN  RequestBody(received) =
                (IF at = {} THEN <<>>
                 ELSE Suffix(received, Len(Separator) + CHOOSE j \in at : \A k \in at : k <= j))

\* C18 as amended: the body is the end of the text that follows a separator
\* and holds no further separator (with the separators found from the left,
\* one after the end of the other), and the whole text when the separator does
\* not occur; a text routed to create or update that has no separator is
\* answered 500 "Internal error".
C18_BodyIsLastPiece ==
    route \in {"post", "put"} =>
        LET at == SeparatorAt(received)
            body == RequestBody(received)
        IN  /\ SeparatorAt(body) = {}
            /\ body = Suffix(received, Len(received) - Len(body) + 1)
            /\ at = {} => /\ body = received
                          /\ status_line = INTERNAL_ERROR
            /\ at # {} => /\ (Len(received) - Len(body) + 1 - Len(Separator)) \in at
                          /\ Cardinality(at) = 1 =>
                                body = Suffix(received, Len(Separator) + CHOOSE j \in at : TRUE)
            /\ status_line = OK_RESPONSE => from_str(body).ok

\* a create whose text has the separator twice was answered 200 and stored the
\* payload that follows the second one
C18_Witness ==
    /\ received = ReqCreateTwoSeparators(PayloadAl)
    /\ Cardinality(SeparatorAt(received)) = 2
    /\ Answered
    /\ status_line = OK_RESPONSE
    /\ db.seq \in DOMAIN db.users
    /\ db.users[db.seq] = PayloadAl

\* C19: the rows of the store change only in a connection that is routed to
\* create, update or delete, whose id and body (as the route needs them) parse,
\* whose store connection and statement succeed, and whose arm returns 200;
\* every request answered 404 or 500, every read-by-id and every list-all
\* leaves all rows as they were.
C19_RowsChangeOnlyOnWrite ==
    [][/\ db'.users # db.users =>
             /\ route' \in {"post", "put", "delete"}
             /\ env'.store = "ok"
             /\ status_line' = OK_RESPONSE
             /\ route' \in {"put", "delete"} => Extracted[received'].id # None
             /\ route' \in {"post", "put"} => Extracted[received'].user.ok
       /\ status_line' \in {NOT_FOUND, INTERNAL_ERROR} => db' = db
       /\ route' \in {"get", "get_all", "not_found", "none"} => db' = db
      ]_vars

\* a delete of the absent id 2 was answered 404 and row 1 is still there
C19_Witness ==
    /\ received = ReqDelete(2)
    /\ Answered
    /\ status_line = NOT_FOUND
    /\ DOMAIN db.users = {1}
    /\ db.seq = 1

\* C20: on the id-addressed routes a token of digits beyond the ends of i32
\* (2147483648, -2147483649) is answered 500 "Internal error", not 404,
\* whatever the store does; a token at an end of i32 (2147483647, -2147483648),
\* which no row has, is answered 404 "User not found" on read and delete when
\* the store serves the request.
C20_IdIsI32 ==
    /\ (route \in {"get", "put", "delete"}
            /\ \E m \in {MethodGet, MethodPut, MethodDelete}, t \in {TokenAboveI32, TokenBelowI32} :
                  starts_with(received, m \o <<" ">> \o PathUser(t) \o <<" ">>)) =>
          /\ status_line = INTERNAL_ERROR
          /\ content = InternalErrorBody
    /\ (route \in {"get", "delete"} /\ env.store = "ok"
            /\ \E m \in {MethodGet, MethodDelete}, t \in {TokenI32Max, TokenI32Min} :
                  starts_with(received, m \o <<" ">> \o PathUser(t) \o <<" ">>)) =>
          /\ status_line = NOT_FOUND
          /\ content = UserNotFound

\* a read of id 2147483648 was answered 500 by a store that serves requests
C20_Witness ==
    /\ received = RequestText(MethodGet, PathUser(TokenAboveI32), <<>>)
    /\ env.store = "ok"
    /\ DOMAIN db.users # {}
    /\ peer = Response(INTERNAL_ERROR, InternalErrorBody)

=============================================================================
